---- MODULE Spec2Model ----
(***************************************************************************)
(* schema2.rs of another-cyclic-datastructure: the translator that turns a *)
(* $ref-based schema document into an arena of TypeInfo nodes, and the     *)
(* recursive validator that walks a JSON value against that arena.         *)
(*                                                                         *)
(* Strings are sequences of one-character strings, so that starts_with,    *)
(* slicing, write! and truncate are computed on characters.  An IndexMap   *)
(* is the sequence of its <<key, value>> pairs in insertion order.  An     *)
(* Option is a sequence of length 0 or 1.  Arena indices are 0-based as in *)
(* the source; slot idx of a Vec is element idx + 1 of the sequence.       *)
(***************************************************************************)
EXTENDS Integers, Sequences, FiniteSets, TLC

\* source    the schema document, the root SourceTypeInfo with its definitions
\* resolved  Translator.resolved
\* types     Translator.types, the arena
\* tstack    the calls of resolve and translate in progress
\* schema    the Schema translate returned, none before it returns
\* phase     "translating", then "panicked" or "ready", then "validating",
\*           then "validated" or "crashed" (validate panicked)
\* value     the value handed to validate
\* vstack    the calls of validate_inner in progress
\* path      the path buffer
\* errors    the error list
\* history   history variable: the definition bodies resolve has started to
\*           translate ("body") and the indices it has returned for nodes
\*           that carry a reference ("ret"), in order
\* result1   what schema1's validate did on the same document and value, once
\*           it has been run: empty before, then one record holding the
\*           error list it built and whether it panicked
VARIABLES source, resolved, types, tstack, schema, phase,
          value, vstack, path, errors, history, result1

vars == <<source, resolved, types, tstack, schema, phase,
          value, vstack, path, errors, history, result1>>

(***************************************************************************)
(* Bounds of the model.                                                    *)
(***************************************************************************)
MaxValueNodes == 4

(***************************************************************************)
(* Program constants.                                                      *)
(***************************************************************************)
\* usize::MAX, the "no items" sentinel.  TLC's integers are 32 bits wide, so
\* the largest of them stands for it; it is only ever compared with an
\* arena length.
UsizeMax == 2147483647

Type == {"object", "string", "number", "bool", "array", "null"}

TypeDefault == "null"

Prefix == <<"#", "/", "d", "e", "f", "i", "n", "i", "t", "i", "o", "n", "s", "/">>

(***************************************************************************)
(* Strings and IndexMap.                                                   *)
(***************************************************************************)
is_empty(s) == Len(s) = 0

starts_with(s, p) == Len(s) >= Len(p) /\ SubSeq(s, 1, Len(p)) = p

\* &s[n..]
SliceFrom(s, n) == SubSeq(s, n + 1, Len(s))

MapKeys(m) == {m[i][1] : i \in 1..Len(m)}

MapHas(m, k) == \E i \in 1..Len(m) : m[i][1] = k

MapGet(m, k) == m[CHOOSE i \in 1..Len(m) : m[i][1] = k][2]

\* An insert that is lost.
MapInsertLost(m, k, v) == m

\* IndexMap::insert: a new key goes last, an existing key keeps its place.
MapInsert(m, k, v) ==
    IF MapHas(m, k)
    THEN [i \in 1..Len(m) |-> IF m[i][1] = k THEN <<k, v>> ELSE m[i]]
    ELSE Append(m, <<k, v>>)

(***************************************************************************)
(* SourceTypeInfo, the raw node of the schema document.                    *)
(***************************************************************************)
SourceTypeInfo(t, props, items, ref, defs) ==
    [type_ |-> t, properties |-> props, items |-> items, ref_ |-> ref,
     definitions |-> defs]

TypeInfo(t, props, items) ==
    [type_ |-> t, properties |-> props, items |-> items]

\* #[derive(Default)] of TypeInfo: Type::null, no properties, items 0.
TypeInfoDefault == TypeInfo(TypeDefault, <<>>, 0)

(***************************************************************************)
(* The schema documents the translator is run on.                          *)
(***************************************************************************)
Leaf(t) == SourceTypeInfo(t, <<>>, <<>>, <<>>, <<>>)
Ref(r) == SourceTypeInfo(TypeDefault, <<>>, <<>>, r, <<>>)
Arr(x) == SourceTypeInfo("array", <<>>, <<x>>, <<>>, <<>>)
Obj(ps) == SourceTypeInfo("object", ps, <<>>, <<>>, <<>>)

KeyA == <<"a">>
KeyB == <<"b">>
NameA == <<"A">>
NameB == <<"B">>
RefA == Prefix \o NameA
RefB == Prefix \o NameB
\* A reference without the "#/definitions/" prefix.
RefBad == <<"#", "/", "A">>

RefChoices == {RefA, RefB, RefBad}

Roots ==
    {Obj(<<<<KeyA, Ref(r1)>>, <<KeyB, Arr(Ref(r2))>>>>) :
        r1 \in RefChoices, r2 \in RefChoices}
    \cup {Ref(RefA),
          \* a reference node that also declares a type and children
          SourceTypeInfo("string", <<<<KeyA, Leaf("number")>>>>,
                         <<Leaf("string")>>, RefB, <<>>),
          Leaf(TypeDefault),
          Leaf("string"),
          Leaf("array"),
          Arr(Leaf("string")),
          Obj(<<<<KeyA, Leaf("number")>>>>),
          Obj(<<<<KeyB, Leaf("number")>>, <<KeyA, Leaf("array")>>>>),
          Obj(<<<<KeyA, Leaf(TypeDefault)>>, <<KeyB, Arr(Arr(Leaf("string")))>>>>)}

DefSets ==
    {<<>>,
     \* a definition that refers to itself through items
     <<<<NameA, Obj(<<<<KeyA, Arr(Ref(RefA))>>, <<KeyB, Leaf("string")>>>>)>>>>,
     \* a definition whose items are the definition itself
     <<<<NameA, Arr(Ref(RefA))>>>>,
     \* two definitions that refer to each other
     <<<<NameA, Arr(Ref(RefB))>>, <<NameB, Obj(<<<<KeyB, Ref(RefA)>>>>)>>>>,
     \* a definition whose body is itself a reference
     <<<<NameA, Ref(RefB)>>, <<NameB, Leaf("string")>>>>,
     \* a malformed reference inside a definition
     <<<<NameA, Leaf("string")>>, <<NameB, Obj(<<<<KeyA, Ref(RefBad)>>>>)>>>>,
     \* a malformed reference placed on a definition body
     <<<<NameA, SourceTypeInfo("number", <<>>, <<>>, RefBad, <<>>)>>>>}

Documents ==
    {[r EXCEPT !.definitions = d] : r \in Roots, d \in DefSets}

(***************************************************************************)
(* Translator: resolve and translate as a call stack of frames.            *)
(***************************************************************************)
TFrame(fn, src, pc) ==
    [fn |-> fn, src |-> src, pc |-> pc, idx |-> 0, k |-> 0,
     items |-> 0, properties |-> <<>>]

TTop == tstack[Len(tstack)]

TPop == SubSeq(tstack, 1, Len(tstack) - 1)

TSetTop(stk, f) == [stk EXCEPT ![Len(stk)] = f]

\* types[idx] = t
TypesSet(ts, idx, t) == [ts EXCEPT ![idx + 1] = t]

\* A table that never finds a reference.
ResolvedHasNever(m, ref) == FALSE

\* resolved.get(&source.ref_)
ResolvedHas(m, ref) == MapHas(m, ref)

\* The caller of resolve takes the returned index: translate stores it as its
\* items or as the next property; translate() at the top stores it as root.
ResolveReturns(stk, idx, ts) ==
    IF stk = <<>>
    THEN /\ tstack' = <<>>
         /\ schema' = <<[types |-> ts, root |-> idx]>>
         /\ phase' = "ready"
    ELSE LET c == stk[Len(stk)] IN
         /\ schema' = schema
         /\ phase' = phase
         /\ tstack' =
              IF c.pc = "items_wait"
              THEN TSetTop(stk, [c EXCEPT !.items = idx, !.pc = "props"])
              ELSE TSetTop(stk,
                     [c EXCEPT !.properties =
                                  Append(@, <<c.src.properties[c.k + 1][1], idx>>),
                               !.k = @ + 1,
                               !.pc = "props"])

\* resolve, source.ref_ empty: call translate on the node itself.
ResolveInline ==
    /\ phase = "translating"
    /\ TTop.fn = "resolve" /\ TTop.pc = "entry"
    /\ is_empty(TTop.src.ref_)
    /\ tstack' = Append(TSetTop(tstack, [TTop EXCEPT !.pc = "inline"]),
                        TFrame("translate", TTop.src, "items"))
    /\ UNCHANGED <<source, resolved, types, schema, phase,
                   value, vstack, path, errors, history, result1>>

\* resolve, the reference is already in the resolved table.
ResolveHit ==
    /\ phase = "translating"
    /\ TTop.fn = "resolve" /\ TTop.pc = "entry"
    /\ ~is_empty(TTop.src.ref_)
    /\ ResolvedHas(resolved, TTop.src.ref_)
    /\ LET idx == MapGet(resolved, TTop.src.ref_) IN
       /\ ResolveReturns(TPop, idx, types)
       /\ history' = Append(history, [ev |-> "ret", ref |-> TTop.src.ref_, idx |-> idx])
    /\ UNCHANGED <<source, resolved, types, value, vstack, path, errors, result1>>

\* resolve, a reference seen for the first time: placeholder, record, then
\* the assertion and the lookup of the definition, either of which panics.
ResolveMiss ==
    /\ phase = "translating"
    /\ TTop.fn = "resolve" /\ TTop.pc = "entry"
    /\ ~is_empty(TTop.src.ref_)
    /\ ~ResolvedHas(resolved, TTop.src.ref_)
    /\ LET ref == TTop.src.ref_
           idx == Len(types)
           defs == source.definitions
           name == SliceFrom(ref, Len(Prefix))
       IN
       /\ types' = Append(types, TypeInfoDefault)
       /\ resolved' = MapInsert(resolved, ref, idx)
       /\ IF starts_with(ref, Prefix) /\ MapHas(defs, name)
          THEN /\ tstack' = Append(
                      TSetTop(tstack, [TTop EXCEPT !.pc = "def", !.idx = idx]),
                      TFrame("translate", MapGet(defs, name), "items"))
               /\ phase' = phase
               /\ history' = Append(history, [ev |-> "body", ref |-> ref, idx |-> idx])
          ELSE /\ tstack' = <<>>
               /\ phase' = "panicked"
               /\ history' = history
    /\ UNCHANGED <<source, schema, value, vstack, path, errors, result1>>

\* translate, the items: resolve them, or take usize::MAX.
TranslateItems ==
    /\ phase = "translating"
    /\ TTop.fn = "translate" /\ TTop.pc = "items"
    /\ IF Len(TTop.src.items) > 0
       THEN tstack' = Append(TSetTop(tstack, [TTop EXCEPT !.pc = "items_wait"]),
                             TFrame("resolve", TTop.src.items[1], "entry"))
       ELSE tstack' = TSetTop(tstack, [TTop EXCEPT !.items = UsizeMax, !.pc = "props"])
    /\ UNCHANGED <<source, resolved, types, schema, phase,
                   value, vstack, path, errors, history, result1>>

\* translate, the next property of source.properties: resolve its node.
TranslateProperty ==
    /\ phase = "translating"
    /\ TTop.fn = "translate" /\ TTop.pc = "props"
    /\ TTop.k < Len(TTop.src.properties)
    /\ tstack' = Append(TSetTop(tstack, [TTop EXCEPT !.pc = "prop_wait"]),
                        TFrame("resolve", TTop.src.properties[TTop.k + 1][2], "entry"))
    /\ UNCHANGED <<source, resolved, types, schema, phase,
                   value, vstack, path, errors, history, result1>>

\* translate returns its TypeInfo to resolve, which pushes it (inline node) or
\* stores it over the placeholder (definition).
TranslateReturn ==
    /\ phase = "translating"
    /\ TTop.fn = "translate" /\ TTop.pc = "props"
    /\ TTop.k = Len(TTop.src.properties)
    /\ LET t == TypeInfo(TTop.src.type_, TTop.properties, TTop.items)
           c == TPop[Len(TPop)]
       IN
       IF c.pc = "inline"
       THEN /\ types' = Append(types, t)
            /\ tstack' = TSetTop(TPop, [c EXCEPT !.idx = Len(types), !.pc = "ret"])
       ELSE /\ types' = TypesSet(types, c.idx, t)
            /\ tstack' = TSetTop(TPop, [c EXCEPT !.pc = "ret"])
    /\ UNCHANGED <<source, resolved, schema, phase,
                   value, vstack, path, errors, history, result1>>

\* resolve returns its index to its caller.
ResolveReturn ==
    /\ phase = "translating"
    /\ TTop.fn = "resolve" /\ TTop.pc = "ret"
    /\ ResolveReturns(TPop, TTop.idx, types)
    /\ history' = IF is_empty(TTop.src.ref_)
                  THEN history
                  ELSE Append(history, [ev |-> "ret", ref |-> TTop.src.ref_, idx |-> TTop.idx])
    /\ UNCHANGED <<source, resolved, types, value, vstack, path, errors, result1>>

(***************************************************************************)
(* serde_json::Value.  An object's fields are its <<key, value>> pairs in  *)
(* key order.                                                              *)
(***************************************************************************)
Value(kind, elems, fields) == [kind |-> kind, elems |-> elems, fields |-> fields]

ValueNull == Value("Null", <<>>, <<>>)

ValueScalars == {Value("String", <<>>, <<>>), Value("Number", <<>>, <<>>)}

RECURSIVE ValuesOfSize(_), SeqsOfSize(_)
\* The sequences of values with n nodes in all.
SeqsOfSize(n) ==
    IF n = 0
    THEN {<<>>}
    ELSE UNION {{<<v>> \o s : v \in ValuesOfSize(k), s \in SeqsOfSize(n - k)} :
                  k \in 1..n}

\* The values with exactly n nodes.
ValuesOfSize(n) ==
    IF n < 1
    THEN {}
    ELSE (IF n = 1 THEN {ValueNull} \cup ValueScalars ELSE {})
         \cup {Value("Array", s, <<>>) : s \in SeqsOfSize(n - 1)}
         \cup {Value("Object", <<>>, <<>>) : x \in IF n = 1 THEN {0} ELSE {}}
         \cup {Value("Object", <<>>, <<<<key, v>>>>) :
                 key \in {KeyA, KeyB}, v \in ValuesOfSize(n - 1)}
         \cup UNION {{Value("Object", <<>>, <<<<KeyA, v>>, <<KeyB, w>>>>) :
                        v \in ValuesOfSize(k), w \in ValuesOfSize(n - 1 - k)} :
                      k \in 1..(n - 2)}

Values == UNION {ValuesOfSize(n) : n \in 1..MaxValueNodes}

\* A null test that never answers yes.
is_null_never(v) == FALSE

\* Value::is_null
is_null(v) == v.kind = "Null"

type_of(v) ==
    CASE v.kind = "Number" -> "number"
      [] v.kind = "String" -> "string"
      [] v.kind = "Bool" -> "bool"
      [] v.kind = "Array" -> "array"
      [] v.kind = "Object" -> "object"
      [] v.kind = "Null" -> "null"

\* &value[key]: the field of an object, Null when the value has no such field.
Index(v, key) ==
    IF v.kind = "Object" /\ MapHas(v.fields, key)
    THEN MapGet(v.fields, key)
    ELSE ValueNull

(***************************************************************************)
(* Schema and the path buffer.                                             *)
(***************************************************************************)
InArena(ts, idx) == idx >= 0 /\ idx < Len(ts)

\* Schema::type_info / Schema::root: &self.types[idx]
type_info(ts, idx) == ts[idx + 1]

Digits == <<"0", "1", "2", "3", "4", "5", "6", "7", "8", "9">>

RECURSIVE Decimal(_)
\* {} of a usize
Decimal(n) ==
    IF n < 10
    THEN <<Digits[n + 1]>>
    ELSE Decimal(n \div 10) \o <<Digits[(n % 10) + 1]>>

\* write!(path, "/{}", seg)
WriteSegment(p, seg) == p \o <<"/">> \o seg

\* A truncate that leaves the buffer as it is.
TruncateNothing(p, len) == p

\* path.truncate(len)
Truncate(p, len) == IF len < Len(p) THEN SubSeq(p, 1, len) ELSE p

\* The error pushed at a mismatch: the three holes of the format string.
TypeMismatch(p, expected, actual) ==
    [path |-> IF is_empty(p) THEN <<"/">> ELSE p,
     expected |-> expected,
     actual |-> actual]

(***************************************************************************)
(* Validator: validate_inner as a call stack of frames.  ti is the arena   *)
(* index the frame's &TypeInfo points at.                                  *)
(***************************************************************************)
VFrame(ti, v) == [ti |-> ti, value |-> v, pc |-> "entry", k |-> 0, len |-> 0]

VTop == vstack[Len(vstack)]

VPop == SubSeq(vstack, 1, Len(vstack) - 1)

VInfo == type_info(schema[1].types, VTop.ti)

\* validate_inner returns: the caller truncates the path and goes on with its
\* loop; validate returns the errors.
ValidateInnerReturns ==
    IF VPop = <<>>
    THEN /\ vstack' = <<>>
         /\ path' = path
         /\ phase' = "validated"
    ELSE LET c == VPop[Len(VPop)] IN
         /\ path' = Truncate(path, c.len)
         /\ vstack' = [VPop EXCEPT ![Len(VPop)] =
                         [c EXCEPT !.k = @ + 1,
                                   !.pc = IF c.pc = "props_wait" THEN "props" ELSE "elems"]]
         /\ phase' = phase

\* validate: a fresh error list and path, validate_inner on schema.root().
Validate ==
    /\ phase = "ready"
    /\ \E v \in Values :
         /\ value' = v
         /\ errors' = <<>>
         /\ path' = <<>>
         /\ IF InArena(schema[1].types, schema[1].root)
            THEN /\ vstack' = <<VFrame(schema[1].root, v)>>
                 /\ phase' = "validating"
            ELSE /\ vstack' = <<>>
                 /\ phase' = "crashed"
    /\ UNCHANGED <<source, resolved, types, tstack, schema, history, result1>>

\* Treat null as always valid.
CheckNull ==
    /\ phase = "validating"
    /\ VTop.pc = "entry"
    /\ is_null(VTop.value)
    /\ ValidateInnerReturns
    /\ UNCHANGED <<source, resolved, types, tstack, schema, value, errors, history, result1>>

\* A mismatch that ends the whole validation at the first error.
CheckMismatchFailFast ==
    /\ phase = "validating"
    /\ VTop.pc = "entry"
    /\ ~is_null(VTop.value)
    /\ type_of(VTop.value) # VInfo.type_
    /\ errors' = Append(errors, TypeMismatch(path, VInfo.type_, type_of(VTop.value)))
    /\ vstack' = <<>>
    /\ path' = <<>>
    /\ phase' = "validated"
    /\ UNCHANGED <<source, resolved, types, tstack, schema, value, history, result1>>

\* actual_type != type_info.type_: one error, and return.
CheckMismatch ==
    /\ phase = "validating"
    /\ VTop.pc = "entry"
    /\ ~is_null(VTop.value)
    /\ type_of(VTop.value) # VInfo.type_
    /\ errors' = Append(errors, TypeMismatch(path, VInfo.type_, type_of(VTop.value)))
    /\ ValidateInnerReturns
    /\ UNCHANGED <<source, resolved, types, tstack, schema, value, history, result1>>

\* The type matches and is object: start the loop over type_info.properties.
EnterObject ==
    /\ phase = "validating"
    /\ VTop.pc = "entry"
    /\ ~is_null(VTop.value)
    /\ type_of(VTop.value) = VInfo.type_
    /\ VInfo.type_ = "object"
    /\ vstack' = [vstack EXCEPT ![Len(vstack)].pc = "props"]
    /\ UNCHANGED <<source, resolved, types, tstack, schema, phase,
                   value, path, errors, history, result1>>

\* The type matches and is array: schema.type_info(type_info.items), which
\* panics on an index outside the arena, then the loop over the elements.
EnterArray ==
    /\ phase = "validating"
    /\ VTop.pc = "entry"
    /\ ~is_null(VTop.value)
    /\ type_of(VTop.value) = VInfo.type_
    /\ VInfo.type_ = "array"
    /\ IF InArena(schema[1].types, VInfo.items)
       THEN /\ vstack' = [vstack EXCEPT ![Len(vstack)].pc = "elems"]
            /\ phase' = phase
       ELSE /\ vstack' = <<>>
            /\ phase' = "crashed"
    /\ UNCHANGED <<source, resolved, types, tstack, schema,
                   value, path, errors, history, result1>>

\* The type matches and is neither object nor array: nothing more to check.
CheckLeaf ==
    /\ phase = "validating"
    /\ VTop.pc = "entry"
    /\ ~is_null(VTop.value)
    /\ type_of(VTop.value) = VInfo.type_
    /\ VInfo.type_ \notin {"object", "array"}
    /\ ValidateInnerReturns
    /\ UNCHANGED <<source, resolved, types, tstack, schema, value, errors, history, result1>>

\* The next (key, child_info) of type_info.properties.
VisitProperty ==
    /\ phase = "validating"
    /\ VTop.pc = "props"
    /\ VTop.k < Len(VInfo.properties)
    /\ LET key == VInfo.properties[VTop.k + 1][1]
           child == VInfo.properties[VTop.k + 1][2]
       IN
       /\ path' = WriteSegment(path, key)
       /\ IF InArena(schema[1].types, child)
          THEN /\ vstack' = Append(
                      [vstack EXCEPT ![Len(vstack)] =
                          [VTop EXCEPT !.pc = "props_wait", !.len = Len(path)]],
                      VFrame(child, Index(VTop.value, key)))
               /\ phase' = phase
          ELSE /\ vstack' = <<>>
               /\ phase' = "crashed"
    /\ UNCHANGED <<source, resolved, types, tstack, schema, value, errors, history, result1>>

\* An element loop that hands on the array instead of its element.
child_value_same(v, k) == v

\* value.as_array().unwrap().iter().enumerate(): the element at idx
child_value(v, k) == v.elems[k + 1]

\* The next (idx, child_value) of the array.
VisitElement ==
    /\ phase = "validating"
    /\ VTop.pc = "elems"
    /\ VTop.k < Len(VTop.value.elems)
    /\ path' = WriteSegment(path, Decimal(VTop.k))
    /\ vstack' = Append(
           [vstack EXCEPT ![Len(vstack)] =
               [VTop EXCEPT !.pc = "elems_wait", !.len = Len(path)]],
           VFrame(VInfo.items, child_value(VTop.value, VTop.k)))
    /\ UNCHANGED <<source, resolved, types, tstack, schema, phase,
                   value, errors, history, result1>>

\* The loop is over: validate_inner returns.
LoopDone ==
    /\ phase = "validating"
    /\ \/ VTop.pc = "props" /\ VTop.k = Len(VInfo.properties)
       \/ VTop.pc = "elems" /\ VTop.k = Len(VTop.value.elems)
    /\ ValidateInnerReturns
    /\ UNCHANGED <<source, resolved, types, tstack, schema, value, errors, history, result1>>

Init ==
    /\ source \in Documents
    /\ resolved = <<>>
    /\ types = <<>>
    /\ tstack = <<TFrame("resolve", source, "entry")>>
    /\ schema = <<>>
    /\ phase = "translating"
    /\ value = ValueNull
    /\ vstack = <<>>
    /\ path = <<>>
    /\ errors = <<>>
    /\ history = <<>>
    /\ result1 = <<>>

Next ==
    \/ ResolveInline
    \/ ResolveHit
    \/ ResolveMiss
    \/ TranslateItems
    \/ TranslateProperty
    \/ TranslateReturn
    \/ ResolveReturn
    \/ Validate
    \/ CheckNull
    \/ CheckMismatch
    \/ EnterObject
    \/ EnterArray
    \/ CheckLeaf
    \/ VisitProperty
    \/ VisitElement
    \/ LoopDone

Spec == Init /\ [][Next]_vars

\* The translator alone, which always takes its next step.
TranslateNext ==
    \/ ResolveInline
    \/ ResolveHit
    \/ ResolveMiss
    \/ TranslateItems
    \/ TranslateProperty
    \/ TranslateReturn
    \/ ResolveReturn

TranslateSpec == Init /\ [][TranslateNext]_vars /\ WF_vars(TranslateNext)

(***************************************************************************)
(* schema1: the validator that walks the document itself.  Its TypeInfo    *)
(* owns its children, so a node is a record holding its child nodes.       *)
(***************************************************************************)
TypeInfo1(t, props, items) ==
    [type_ |-> t, properties |-> props, items |-> items]

RECURSIVE from_value1(_)
\* #[derive(Deserialize)] of schema1's TypeInfo: "type", "properties" and
\* "items" are read, every other field of the document is ignored.
from_value1(n) ==
    TypeInfo1(n.type_,
              [k \in 1..Len(n.properties) |->
                  <<n.properties[k][1], from_value1(n.properties[k][2])>>],
              [k \in 1..Len(n.items) |-> from_value1(n.items[k])])

\* A type_of that reports an array as an object.
type_of1_array_as_object(v) ==
    CASE v.kind = "Number" -> "number"
      [] v.kind = "String" -> "string"
      [] v.kind = "Bool" -> "bool"
      [] v.kind = "Array" -> "object"
      [] v.kind = "Object" -> "object"
      [] v.kind = "Null" -> "null"

type_of1(v) ==
    CASE v.kind = "Number" -> "number"
      [] v.kind = "String" -> "string"
      [] v.kind = "Bool" -> "bool"
      [] v.kind = "Array" -> "array"
      [] v.kind = "Object" -> "object"
      [] v.kind = "Null" -> "null"

\* The error schema1 pushes at a mismatch: the three holes of its format
\* string.
TypeMismatch1(p, expected, actual) ==
    [path |-> IF is_empty(p) THEN <<"/">> ELSE p,
     expected |-> expected,
     actual |-> actual]

\* The path buffer and error list validate_inner works on; panicked once an
\* unwrap has failed.
State1(p, errs, panicked) == [path |-> p, errors |-> errs, panicked |-> panicked]

RECURSIVE validate_inner1(_, _, _), validate_properties1(_, _, _, _),
          validate_items1(_, _, _, _)
\* validate_inner of schema1 on the node type_info, the value v and the
\* buffers st.
validate_inner1(type_info1, v, st) ==
    IF st.panicked \/ is_null(v)
    THEN st
    ELSE IF type_of1(v) # type_info1.type_
    THEN [st EXCEPT !.errors =
             Append(@, TypeMismatch1(st.path, type_info1.type_, type_of1(v)))]
    ELSE IF type_info1.type_ = "object"
    THEN validate_properties1(type_info1, v, st, 0)
    ELSE IF type_info1.type_ = "array"
    THEN IF Len(type_info1.items) = 0
         THEN [st EXCEPT !.panicked = TRUE]
         ELSE validate_items1(type_info1.items[1], v, st, 0)
    ELSE st

\* The loop over type_info.properties from its k-th entry on.
validate_properties1(type_info1, v, st, k) ==
    IF st.panicked \/ k >= Len(type_info1.properties)
    THEN st
    ELSE LET key == type_info1.properties[k + 1][1]
             child_info == type_info1.properties[k + 1][2]
             len == Len(st.path)
             inner == validate_inner1(child_info, Index(v, key),
                          [st EXCEPT !.path = WriteSegment(@, key)])
         IN
         validate_properties1(type_info1, v,
             IF inner.panicked THEN inner
             ELSE [inner EXCEPT !.path = Truncate(@, len)],
             k + 1)

\* The loop over the elements of the array v from its idx-th element on.
validate_items1(child_info, v, st, idx) ==
    IF st.panicked \/ idx >= Len(v.elems)
    THEN st
    ELSE LET len == Len(st.path)
             inner == validate_inner1(child_info, v.elems[idx + 1],
                          [st EXCEPT !.path = WriteSegment(@, Decimal(idx))])
         IN
         validate_items1(child_info, v,
             IF inner.panicked THEN inner
             ELSE [inner EXCEPT !.path = Truncate(@, len)],
             idx + 1)

\* validate of schema1: a fresh error list and path, validate_inner on the
\* root node.
validate1(type_info1, v) ==
    LET st == validate_inner1(type_info1, v, State1(<<>>, <<>>, FALSE)) IN
    [errors |-> st.errors, panicked |-> st.panicked]

\* schema1 is run on the document and the value the resolved engine has just
\* finished with.
ValidateTree ==
    /\ phase \in {"validated", "crashed"}
    /\ result1 = <<>>
    /\ result1' = <<validate1(from_value1(source), value)>>
    /\ UNCHANGED <<source, resolved, types, tstack, schema, phase,
                   value, vstack, path, errors, history>>

\* Documents without references, for both engines.
TreeLeaves == {Leaf("string"), Leaf("number")}

TreeChildren == TreeLeaves \cup {Arr(Leaf("string"))}

TreeDocuments ==
    TreeChildren
    \cup {Arr(x) : x \in TreeChildren}
    \cup {Obj(<<<<KeyA, x>>, <<KeyB, y>>>>) : x \in TreeChildren, y \in TreeChildren}
    \cup {Obj(<<<<KeyB, Obj(<<<<KeyA, Leaf("number")>>>>)>>>>),
          \* a definition nothing refers to
          [Obj(<<<<KeyA, Leaf("string")>>>>) EXCEPT
              !.definitions = <<<<NameA, Leaf("number")>>>>],
          \* arrays that do not say what their elements are
          Leaf("array"),
          Obj(<<<<KeyA, Leaf("array")>>>>)}

TreeInit ==
    /\ source \in TreeDocuments
    /\ resolved = <<>>
    /\ types = <<>>
    /\ tstack = <<TFrame("resolve", source, "entry")>>
    /\ schema = <<>>
    /\ phase = "translating"
    /\ value = ValueNull
    /\ vstack = <<>>
    /\ path = <<>>
    /\ errors = <<>>
    /\ history = <<>>
    /\ result1 = <<>>

\* Both engines on a document without references: no node of such a document
\* takes resolve's reference branches.
TreeNext ==
    \/ ResolveInline
    \/ TranslateItems
    \/ TranslateProperty
    \/ TranslateReturn
    \/ ResolveReturn
    \/ Validate
    \/ CheckNull
    \/ CheckMismatch
    \/ EnterObject
    \/ EnterArray
    \/ CheckLeaf
    \/ VisitProperty
    \/ VisitElement
    \/ LoopDone
    \/ ValidateTree

TreeSpec == TreeInit /\ [][TreeNext]_vars

(***************************************************************************)
(* Properties of the translator.                                           *)
(***************************************************************************)
RECURSIVE SumOver(_, _)
SumOver(F(_), s) == IF s = <<>> THEN 0 ELSE F(Head(s)) + SumOver(F, Tail(s))

RECURSIVE CountRefFree(_)
\* The reference-free raw nodes of the tree under n, definitions included.
CountRefFree(n) ==
    LET Child(pair) == CountRefFree(pair[2]) IN
    (IF is_empty(n.ref_) THEN 1 ELSE 0)
    + SumOver(Child, n.properties)
    + SumOver(CountRefFree, n.items)
    + SumOver(Child, n.definitions)

RECURSIVE RefStringsOf(_)
\* The $ref strings of the tree under n, definitions included.
RefStringsOf(n) ==
    (IF is_empty(n.ref_) THEN {} ELSE {n.ref_})
    \cup UNION {RefStringsOf(n.properties[i][2]) : i \in 1..Len(n.properties)}
    \cup UNION {RefStringsOf(n.items[i]) : i \in 1..Len(n.items)}
    \cup UNION {RefStringsOf(n.definitions[i][2]) : i \in 1..Len(n.definitions)}

WellFormedRef(r) ==
    /\ starts_with(r, Prefix)
    /\ MapHas(source.definitions, SliceFrom(r, Len(Prefix)))

WellFormedDocument == \A r \in RefStringsOf(source) : WellFormedRef(r)

HistoryOf(ev) == {i \in 1..Len(history) : history[i].ev = ev}

C1_SharingState ==
    /\ \A i \in 1..Len(history) :
         /\ MapHas(resolved, history[i].ref)
         /\ history[i].idx = MapGet(resolved, history[i].ref)
         /\ InArena(types, history[i].idx)
    /\ \A i \in HistoryOf("body"), j \in HistoryOf("body") :
         history[i].ref = history[j].ref => i = j
    /\ \A i \in HistoryOf("ret") :
         \E j \in HistoryOf("body") : j < i /\ history[j].ref = history[i].ref

C1_TableStable ==
    /\ Len(resolved') >= Len(resolved)
    /\ \A i \in 1..Len(resolved) : resolved'[i] = resolved[i]

\* C1: in one run of translate every node that carries the reference R gets
\* the index recorded for R in the resolved table, at any depth and while the
\* body of R is still being translated; the body of R is translated once, and
\* an entry of the resolved table never changes once recorded.
C1_SharingLaw == [](C1_SharingState) /\ [][C1_TableStable]_vars

\* A reference to R has been answered from the table while the body of R is
\* still being translated, after an earlier translation step of that body.
C1_Witness ==
    \E i \in HistoryOf("ret") :
        /\ \E f \in 1..Len(tstack) :
             /\ tstack[f].fn = "resolve"
             /\ tstack[f].pc = "def"
             /\ tstack[f].src.ref_ = history[i].ref
             /\ f + 2 < Len(tstack)
        /\ history[i].idx = MapGet(resolved, history[i].ref)

ArenaBound == CountRefFree(source) + Cardinality(RefStringsOf(source))

\* C2: resolution of a document whose references are well-formed ends with a
\* schema, self-referential definitions included, and the arena never holds
\* more nodes than the reference-free raw nodes plus the distinct $ref strings.
C2_TerminatesBounded ==
    /\ (WellFormedDocument => <>(phase = "ready"))
    /\ [](Len(types) <= ArenaBound)

\* The arena indices node idx refers to.
Successors(ts, idx) ==
    LET n == type_info(ts, idx) IN
    {n.properties[k][2] : k \in 1..Len(n.properties)}
    \cup (IF InArena(ts, n.items) /\ n.type_ = "array" THEN {n.items} ELSE {})

\* A document whose definition A refers to itself through another definition
\* has been resolved to a schema in which A's node leads back to itself.
C2_Witness ==
    /\ phase = "ready"
    /\ WellFormedDocument
    /\ MapHas(resolved, RefA) /\ MapHas(resolved, RefB)
    /\ LET a == MapGet(resolved, RefA)
           b == MapGet(resolved, RefB)
       IN
       /\ b \in Successors(schema[1].types, a)
       /\ a \in Successors(schema[1].types, b)

DefinitionOf(r) == MapGet(source.definitions, SliceFrom(r, Len(Prefix)))

RECURSIVE FinalDefinition(_, _)
\* The definition a reference finally refers to, through definition bodies
\* that are themselves references.
FinalDefinition(r, fuel) ==
    LET d == DefinitionOf(r) IN
    IF is_empty(d.ref_) \/ fuel = 0 \/ ~WellFormedRef(d.ref_)
    THEN d
    ELSE FinalDefinition(d.ref_, fuel - 1)

\* C3: the arena node obtained for a reference has the kind, the properties
\* and the items of the definition finally referred to, also when the
\* definition's body is itself a reference.
C3_ReferenceStandsForDefinition ==
    phase = "ready" =>
        \A i \in 1..Len(resolved) :
            LET d == FinalDefinition(resolved[i][1], Len(source.definitions))
                n == type_info(schema[1].types, resolved[i][2])
            IN
            /\ n.type_ = d.type_
            /\ MapKeys(n.properties) = MapKeys(d.properties)
            /\ (n.items # UsizeMax) = (Len(d.items) > 0)

\* C4: a reference anywhere in the document that lacks the prefix or names no
\* definition makes resolution abort, so that no schema is returned.
C4_BadReferenceAborts ==
    ~WellFormedDocument => schema = <<>>

NoDangling(sch) ==
    /\ InArena(sch.types, sch.root)
    /\ \A i \in 1..Len(sch.types) :
         LET n == sch.types[i] IN
         /\ \A k \in 1..Len(n.properties) : InArena(sch.types, n.properties[k][2])
         /\ n.type_ = "array" => InArena(sch.types, n.items)

\* C5: in a returned schema the root, every properties index and the items of
\* every array node are indices into the arena, and validate never indexes
\* outside it.
C5_NoDanglingIndex ==
    /\ schema # <<>> => NoDangling(schema[1])
    /\ phase # "crashed"

(***************************************************************************)
(* Properties of the validator.                                            *)
(***************************************************************************)
Field(v, key) ==
    IF \E i \in 1..Len(v.fields) : v.fields[i][1] = key
    THEN v.fields[CHOOSE i \in 1..Len(v.fields) : v.fields[i][1] = key][2]
    ELSE ValueNull

KindName(v) ==
    [Null |-> "null", Bool |-> "bool", Number |-> "number", String |-> "string",
     Array |-> "array", Object |-> "object"][v.kind]

RECURSIVE JoinPath(_)
\* The '/'-joined segments, "/" for none.
JoinPath(segs) ==
    IF segs = <<>>
    THEN <<"/">>
    ELSE IF Len(segs) = 1
         THEN <<"/">> \o segs[1]
         ELSE JoinPath(SubSeq(segs, 1, Len(segs) - 1)) \o <<"/">> \o segs[Len(segs)]

DecimalDigits(n) ==
    IF n < 10 THEN <<Digits[n + 1]>> ELSE <<Digits[(n \div 10) + 1], Digits[(n % 10) + 1]>>

\* The segment a waiting frame has written for the call it waits for.
SegmentOf(f) ==
    IF f.pc = "props_wait"
    THEN type_info(schema[1].types, f.ti).properties[f.k + 1][1]
    ELSE DecimalDigits(f.k)

StackSegments == [i \in 1..(Len(vstack) - 1) |-> SegmentOf(vstack[i])]

\* The child values of v.
ChildrenOf(v) ==
    {v.elems[i] : i \in 1..Len(v.elems)} \cup {v.fields[i][2] : i \in 1..Len(v.fields)}

\* C6: a null value, and so a declared property the object value lacks, adds
\* no error and has no child visited, whatever the kind of its node.
C6_NullStep ==
    (phase = "validating" /\ vstack[Len(vstack)].pc = "entry"
       /\ vstack[Len(vstack)].value = ValueNull)
    => /\ errors' = errors
       /\ \/ phase' = "validated"
          \/ /\ Len(vstack') = Len(vstack) - 1
             /\ vstack'[Len(vstack')].pc \in {"props", "elems"}

C6_AbsentIsNull ==
    phase = "validating" =>
        \A i \in 1..(Len(vstack) - 1) :
            (vstack[i].pc = "props_wait"
               /\ SegmentOf(vstack[i]) \notin MapKeys(vstack[i].value.fields))
            => vstack[i + 1].value = ValueNull

C6_NullWildcard == [](C6_AbsentIsNull) /\ [][C6_NullStep]_vars

\* A declared property that the object value lacks is being checked against a
\* node of kind object that declares properties.
C6_Witness ==
    /\ phase = "validating"
    /\ Len(vstack) >= 2
    /\ VTop.pc = "entry"
    /\ VTop.value = ValueNull
    /\ vstack[Len(vstack) - 1].pc = "props_wait"
    /\ SegmentOf(vstack[Len(vstack) - 1]) \notin MapKeys(vstack[Len(vstack) - 1].value.fields)
    /\ VInfo.type_ = "object"
    /\ Len(VInfo.properties) > 0

\* C7: a node without a type and without a reference is unconstrained: no
\* value checked against it adds an error.  In a document none of whose
\* definition bodies carries a reference, the arena nodes of kind null are
\* exactly those nodes.
C7_TypelessUnconstrained ==
    (\A i \in 1..Len(source.definitions) : is_empty(source.definitions[i][2].ref_))
    => \A i \in 1..Len(errors) : errors[i].expected # TypeDefault

RECURSIVE Frontier(_, _, _)
\* The places (segment sequences) of the values that mismatch their node while
\* every value above them matches.  Nothing lies under an array node whose
\* items are outside the arena: there validate_inner panics.
Frontier(idx, v, segs) ==
    LET n == type_info(schema[1].types, idx) IN
    IF v = ValueNull
    THEN {}
    ELSE IF KindName(v) # n.type_
    THEN {segs}
    ELSE IF n.type_ = "object"
    THEN UNION {Frontier(n.properties[k][2], Field(v, n.properties[k][1]),
                         Append(segs, n.properties[k][1])) :
                  k \in 1..Len(n.properties)}
    ELSE IF n.type_ = "array" /\ InArena(schema[1].types, n.items)
    THEN UNION {Frontier(n.items, v.elems[i], Append(segs, DecimalDigits(i - 1))) :
                  i \in 1..Len(v.elems)}
    ELSE {}

\* q is p followed by further segments.
Extends(q, p) ==
    /\ Len(q) > Len(p)
    /\ \/ p = <<"/">>
       \/ SubSeq(q, 1, Len(p)) = p /\ q[Len(p) + 1] = "/"

ErrorPaths == {errors[i].path : i \in 1..Len(errors)}

\* C8: a value that mismatches under matching ancestors gets exactly one
\* error, at its path; no error lies below another error; nothing is reported
\* for keys the schema does not declare; and when validate returns, every
\* such value has its error, so the declared siblings of a mismatch were all
\* checked.
C8_MismatchHaltsLocally ==
    phase \in {"validating", "validated", "crashed"} =>
        LET front == Frontier(schema[1].root, value, <<>>) IN
        /\ ErrorPaths \subseteq {JoinPath(segs) : segs \in front}
        /\ Len(errors) = Cardinality(ErrorPaths)
        /\ \A i \in 1..Len(errors), j \in 1..Len(errors) :
             ~Extends(errors[i].path, errors[j].path)
        /\ phase = "validated" =>
             /\ ErrorPaths = {JoinPath(segs) : segs \in front}
             /\ Len(errors) = Cardinality(front)

\* The first property of the root mismatched with a value that has a child of
\* its own, and the second property was still checked and mismatched too.
C8_Witness ==
    /\ phase = "validated"
    /\ Len(errors) = 2
    /\ value.kind = "Object"
    /\ Len(value.fields) = 2
    /\ ChildrenOf(value.fields[1][2]) # {}
    /\ errors[1].path = JoinPath(<<KeyA>>)
    /\ errors[2].path = JoinPath(<<KeyB>>)

RECURSIVE ExpectedErrors(_, _, _), ExpectedProperties(_, _, _, _), ExpectedElements(_, _, _, _)
\* The errors of the value v at place segs against node idx, in pre-order.
ExpectedErrors(idx, v, segs) ==
    LET n == type_info(schema[1].types, idx) IN
    IF v = ValueNull
    THEN <<>>
    ELSE IF KindName(v) # n.type_
    THEN <<[path |-> JoinPath(segs), expected |-> n.type_, actual |-> KindName(v)]>>
    ELSE IF n.type_ = "object"
    THEN ExpectedProperties(n, v, segs, 1)
    ELSE IF n.type_ = "array" /\ InArena(schema[1].types, n.items)
    THEN ExpectedElements(n, v, segs, 1)
    ELSE <<>>

ExpectedProperties(n, v, segs, k) ==
    IF k > Len(n.properties)
    THEN <<>>
    ELSE ExpectedErrors(n.properties[k][2], Field(v, n.properties[k][1]),
                        Append(segs, n.properties[k][1]))
         \o ExpectedProperties(n, v, segs, k + 1)

ExpectedElements(n, v, segs, i) ==
    IF i > Len(v.elems)
    THEN <<>>
    ELSE ExpectedErrors(n.items, v.elems[i], Append(segs, DecimalDigits(i - 1)))
         \o ExpectedElements(n, v, segs, i + 1)

\* C9: the errors are in pre-order (properties in the node's insertion order,
\* elements by ascending index), each with the '/'-joined path from the root
\* to the mismatched value; during the walk the path buffer is the joined
\* segments of the calls in progress, so it is restored after each call, and
\* the errors so far are the first of the pre-order list.
C9_PreOrderPaths ==
    /\ phase = "validating" =>
         path = (IF Len(vstack) = 1 THEN <<>> ELSE JoinPath(StackSegments))
    /\ phase \in {"validating", "crashed"} =>
         LET all == ExpectedErrors(schema[1].root, value, <<>>) IN
         /\ Len(errors) <= Len(all)
         /\ errors = SubSeq(all, 1, Len(errors))
    /\ phase = "validated" =>
         /\ path = <<>>
         /\ errors = ExpectedErrors(schema[1].root, value, <<>>)

\* Two errors in order, the later one reached through a definition that
\* refers to itself and after an earlier call had written to the path.
C9_Witness ==
    /\ phase = "validated"
    /\ Len(errors) >= 2
    /\ Len(errors[Len(errors)].path) >= 4
    /\ MapHas(resolved, RefA)
    /\ \E i \in 1..Len(schema[1].types) :
         schema[1].types[i].items = MapGet(resolved, RefA)

RECURSIVE Depth(_)
Depth(v) ==
    LET ds == {Depth(c) : c \in ChildrenOf(v)} IN
    IF ds = {} THEN 1 ELSE 1 + CHOOSE d \in ds : \A e \in ds : e <= d

C10_SubValues ==
    phase = "validating" =>
        /\ Len(vstack) <= Depth(value) + 1
        /\ vstack[1].value = value
        /\ \A i \in 2..Len(vstack) :
             \/ vstack[i].value = ValueNull
             \/ vstack[i].value \in ChildrenOf(vstack[i - 1].value)

RECURSIVE Steps(_, _)
\* The steps validate_inner takes on value v against node idx, by recursion on
\* the value: one for a null, a mismatch or a leaf; for an object or an array
\* one to enter the loop, one per iteration besides the call, one to leave it.
Steps(idx, v) ==
    LET n == type_info(schema[1].types, idx) IN
    IF v = ValueNull \/ KindName(v) # n.type_ \/ n.type_ \notin {"object", "array"}
    THEN 1
    ELSE IF n.type_ = "object"
    THEN 2 + SumOver(LAMBDA pr : 1 + Steps(pr[2], Field(v, pr[1])), n.properties)
    ELSE IF ~InArena(schema[1].types, n.items)
    THEN 1
    ELSE 2 + SumOver(LAMBDA c : 1 + Steps(n.items, c), v.elems)

\* The steps left to a frame, the call it waits for not counted.
StepsLeft(f) ==
    LET n == type_info(schema[1].types, f.ti)
        from == IF f.pc \in {"props_wait", "elems_wait"} THEN f.k + 2 ELSE f.k + 1
    IN
    IF f.pc = "entry"
    THEN Steps(f.ti, f.value)
    ELSE IF f.pc \in {"props", "props_wait"}
    THEN 1 + SumOver(LAMBDA pr : 1 + Steps(pr[2], Field(f.value, pr[1])),
                     SubSeq(n.properties, from, Len(n.properties)))
    ELSE 1 + SumOver(LAMBDA c : 1 + Steps(n.items, c),
                     SubSeq(f.value.elems, from, Len(f.value.elems)))

\* The variant of the walk: the steps left to all the calls in progress.
Remaining(stk) == SumOver(StepsLeft, stk)

C10_VariantDecreases ==
    phase = "validating" =>
        \/ phase' \in {"validated", "crashed"}
        \/ phase' = "validating" /\ Remaining(vstack') < Remaining(vstack)

\* C10: validation ends for every schema, cyclic ones included: each call of
\* validate_inner gets a child of its caller's value or null, so the calls in
\* progress never number more than the depth of the value (the nodes on its
\* longest chain) plus one, and every step lowers a variant that is defined by
\* recursion on the value alone.
C10_ValidationTerminates ==
    [](C10_SubValues) /\ [][C10_VariantDecreases]_vars

\* A value nested three deep is being checked against a schema whose node
\* leads back to itself, with as many calls in progress as the bound allows.
C10_Witness ==
    /\ phase = "validating"
    /\ Depth(value) >= 3
    /\ Len(vstack) = Depth(value) + 1
    /\ \E i \in 1..(Len(vstack) - 1), j \in 1..(Len(vstack) - 1) :
         i < j /\ vstack[i].ti = vstack[j].ti

(***************************************************************************)
(* C11                                                                     *)
(***************************************************************************)
RECURSIVE DeclaresAll(_)
\* Every node under n, definitions aside, declares a type and, if it is an
\* array, its items.
DeclaresAll(n) ==
    /\ n.type_ # TypeDefault
    /\ n.type_ = "array" => Len(n.items) = 1
    /\ \A k \in 1..Len(n.properties) : DeclaresAll(n.properties[k][2])
    /\ \A k \in 1..Len(n.items) : DeclaresAll(n.items[k])

C11_Covered == RefStringsOf(source) = {} /\ DeclaresAll(source)

RECURSIVE CountInline(_)
\* The nodes of the document under n, definitions aside.
CountInline(n) ==
    LET Child(pair) == CountInline(pair[2]) IN
    1 + SumOver(Child, n.properties) + SumOver(CountInline, n.items)

RECURSIVE ShapeOf(_)
\* The document under n as a labelled ordered tree.
ShapeOf(n) ==
    [type_ |-> n.type_,
     properties |-> [k \in 1..Len(n.properties) |->
                        <<n.properties[k][1], ShapeOf(n.properties[k][2])>>],
     items |-> [k \in 1..Len(n.items) |-> ShapeOf(n.items[k])]]

RECURSIVE Unfold(_, _, _)
\* The arena unfolded from idx into a labelled ordered tree, at most fuel
\* levels deep.
Unfold(ts, idx, fuel) ==
    IF fuel = 0 \/ ~InArena(ts, idx)
    THEN [type_ |-> "cut", properties |-> <<>>, items |-> <<>>]
    ELSE LET n == type_info(ts, idx) IN
         [type_ |-> n.type_,
          properties |-> [k \in 1..Len(n.properties) |->
                             <<n.properties[k][1],
                               Unfold(ts, n.properties[k][2], fuel - 1)>>],
          items |-> IF n.items = UsizeMax
                    THEN <<>>
                    ELSE <<Unfold(ts, n.items, fuel - 1)>>]

\* The slots the node at idx points at, one entry per pointer.
Pointers(ts, idx) ==
    LET n == type_info(ts, idx) IN
    [k \in 1..Len(n.properties) |-> n.properties[k][2]]
    \o (IF n.items = UsizeMax THEN <<>> ELSE <<n.items>>)

PointersInto(ts, idx) ==
    LET Hits(from) ==
            Cardinality({k \in 1..Len(Pointers(ts, from)) :
                            Pointers(ts, from)[k] = idx})
    IN SumOver(Hits, [i \in 1..Len(ts) |-> i - 1])

\* The arena is a tree with the shape of the document: nothing points at the
\* root, exactly one pointer leads to every other slot, there is one slot per
\* node of the document, and unfolding the root gives the document back.
C11_ArenaIsDocumentTree ==
    LET ts == schema[1].types
        root == schema[1].root
    IN
    /\ InArena(ts, root)
    /\ Len(ts) = CountInline(source)
    /\ \A idx \in 0..(Len(ts) - 1) :
         PointersInto(ts, idx) = (IF idx = root THEN 0 ELSE 1)
    /\ Unfold(ts, root, Len(ts)) = ShapeOf(source)

\* C11: for a document without references in which every node declares a type
\* and every array node its items, the translated arena is a tree with the
\* shape of the document, one slot per inline node, validation on it never
\* crashes, and schema1's validate on the document neither panics nor returns
\* an error list other than the one validation on the arena returned.
C11_TreeEquivalence ==
    C11_Covered =>
        /\ schema # <<>> => C11_ArenaIsDocumentTree
        /\ phase # "crashed"
        /\ result1 # <<>> =>
             /\ ~result1[1].panicked
             /\ phase = "validated"
             /\ result1[1].errors = errors

\* Both engines have reported the same two errors, in the same order, for an
\* object whose two properties have the same inline type, each in a slot of
\* its own.
C11_Witness ==
    /\ C11_Covered
    /\ phase = "validated"
    /\ result1 # <<>>
    /\ Len(errors) = 2
    /\ result1[1].errors = errors
    /\ errors[1].path = <<"/">> \o KeyA
    /\ errors[2].path = <<"/">> \o KeyB
    /\ Len(schema[1].types) = 3
    /\ schema[1].types[1] = schema[1].types[2]

====
